---------------------------- MODULE Spec2Model ----------------------------
(***************************************************************************)
(* A model of paths.go: CreatesCycle, ShortestPath,                        *)
(* StronglyConnectedComponents/findSCC and FindAllPaths.  Each function is *)
(* a call on an immutable graph g; one specification per function          *)
(* (SpecCC, SpecSP, SpecSCC, SpecFAP).                                     *)
(***************************************************************************)
EXTENDS Integers, Sequences, FiniteSets, TLC

VARIABLES
    g,                \* the graph the call receives: vertices, edges, traits
    source,           \* argument source
    target,           \* argument target
    pc,               \* position of the call
    result,           \* what the call returned: [val, err]
    lookups,          \* CreatesCycle: hashes handed to g.Vertex, in order
    stack,            \* CreatesCycle: stack; findSCC: state.stack
    visited,          \* CreatesCycle: visited; findSCC: state.visited
    weights,          \* ShortestPath: weights
    queue,            \* ShortestPath / FindAllPaths: the priority queue
    bestPredecessors, \* ShortestPath: bestPredecessors
    path,             \* ShortestPath: path
    current,          \* ShortestPath: current
    onStack,          \* findSCC: state.onStack
    lowlink,          \* findSCC: state.lowlink
    index,            \* findSCC: state.index
    time,             \* findSCC: state.time
    components,       \* findSCC: state.components
    frames,           \* findSCC: the Go call stack of findSCC activations
    pending,          \* StronglyConnectedComponents: hashes the range loop has yet to yield
    paths             \* FindAllPaths: paths

vars == <<g, source, target, pc, result, lookups, stack, visited, weights,
          queue, bestPredecessors, path, current, onStack, lowlink, index,
          time, components, frames, pending, paths>>

ccVars == <<lookups>>
spVars == <<weights, bestPredecessors, path, current>>
sccVars == <<onStack, lowlink, index, time, components, frames, pending>>
fapVars == <<paths>>

---------------------------------------------------------------------------
\* Bounds of the model.

\* Most edges a generated graph holds.
MaxEdges == 3

\* Largest stored edge weight (weights are 0..MaxWeight: non-negative).
MaxWeight == 1

\* The vertex hashes of type K = int; 0 is the zero value of K.
Hashes == {0, 1, 2}

\* The zero value of K (paths.go: `var hash K`).
ZeroK == 0

---------------------------------------------------------------------------
\* Helpers.

\* All orders in which a range loop over a map with key set S may yield it.
Orderings(S) ==
    {f \in [1..Cardinality(S) -> S] : \A i, j \in 1..Cardinality(S) : f[i] = f[j] => i = j}

Last(s) == s[Len(s)]

Front(s) == SubSeq(s, 1, Len(s) - 1)

SeqToSet(s) == {s[i] : i \in 1..Len(s)}

\* The graphs over vertex subsets of H with at most maxE edges, weights in W.
Graphs(H, maxE, W) ==
    UNION {
      UNION {
        { [vertices |-> V, edges |-> w] : w \in [Es -> W] }
        : Es \in {S \in SUBSET (V \X V) : Cardinality(S) <= maxE} }
      : V \in SUBSET H }

\* g.Vertex(hash): fails with ErrVertexNotFound when the hash is absent.
VertexFound(hash) == hash \in g.vertices

\* g.AdjacencyMap(): every vertex maps to its outgoing edges, keyed by target.
adjacencyMap ==
    [v \in g.vertices |->
        [u \in {x \in g.vertices : <<v, x>> \in DOMAIN g.edges} |-> g.edges[<<v, u>>]]]

\* g.PredecessorMap(): every vertex maps to its incoming edges, keyed by source.
predecessorMap ==
    [v \in g.vertices |->
        [u \in {x \in g.vertices : <<x, v>> \in DOMAIN g.edges} |-> g.edges[<<u, v>>]]]

\* Indexing a Go map of maps with a key it may not hold yields the nil map.
Row(m, k) == IF k \in DOMAIN m THEN m[k] ELSE <<>>

\* The vertices reachable from v along directed edges, v included.
RECURSIVE ReachFrom(_, _)
ReachFrom(S, n) ==
    IF n = 0 THEN S
    ELSE ReachFrom(S \cup {e[2] : e \in {d \in DOMAIN g.edges : d[1] \in S}}, n - 1)

Reachable(u, v) == v \in ReachFrom({u}, Cardinality(g.vertices))

NoResult == [val |-> <<>>, err |-> "pending"]

---------------------------------------------------------------------------
\* CreatesCycle (paths.go 17-60).

\* Lines 18-28: the lookups of source and target, then the source == target test.
\* Yields the hashes looked up and the return taken, or "continue".
CCSelfFirstOutcome(s, t) ==
    IF s = t THEN [looked |-> <<>>, ret |-> "true"]
    ELSE IF ~VertexFound(s) THEN [looked |-> <<s>>, ret |-> "notfound"]
    ELSE IF ~VertexFound(t) THEN [looked |-> <<s, t>>, ret |-> "notfound"]
    ELSE [looked |-> <<s, t>>, ret |-> "continue"]

CCEntryOutcome(s, t) ==
    IF ~VertexFound(s) THEN [looked |-> <<s>>, ret |-> "notfound"]
    ELSE IF ~VertexFound(t) THEN [looked |-> <<s, t>>, ret |-> "notfound"]
    ELSE IF s = t THEN [looked |-> <<s, t>>, ret |-> "true"]
    ELSE [looked |-> <<s, t>>, ret |-> "continue"]

\* Line 53: the keys the range loop pushes for currentHash.
CCNeighboursForward(currentHash) == DOMAIN Row(adjacencyMap, currentHash)

CCNeighbours(currentHash) == DOMAIN Row(predecessorMap, currentHash)

InitCC ==
    /\ \E gr \in Graphs(Hashes, MaxEdges, {0}) :
         g = [vertices |-> gr.vertices, edges |-> gr.edges,
              traits |-> [IsDirected |-> TRUE, IsWeighted |-> FALSE]]
    /\ source \in Hashes
    /\ target \in Hashes
    /\ pc = "start"
    /\ result = NoResult
    /\ lookups = <<>>
    /\ stack = <<>>
    /\ visited = {}
    /\ weights = <<>>
    /\ queue = <<>>
    /\ bestPredecessors = <<>>
    /\ path = <<>>
    /\ current = 0
    /\ onStack = <<>>
    /\ lowlink = <<>>
    /\ index = <<>>
    /\ time = 0
    /\ components = <<>>
    /\ frames = <<>>
    /\ pending = {}
    /\ paths = <<>>

\* Lines 18-38.
CCEntry ==
    /\ pc = "start"
    /\ LET o == CCEntryOutcome(source, target) IN
         /\ lookups' = o.looked
         /\ CASE o.ret = "notfound" ->
                   /\ result' = [val |-> FALSE, err |-> "VertexNotFound"]
                   /\ pc' = "done"
                   /\ UNCHANGED stack
              [] o.ret = "true" ->
                   /\ result' = [val |-> TRUE, err |-> "nil"]
                   /\ pc' = "done"
                   /\ UNCHANGED stack
              [] OTHER ->
                   /\ stack' = <<source>>
                   /\ pc' = "loop"
                   /\ UNCHANGED result
    /\ UNCHANGED <<g, source, target, visited, queue, spVars, sccVars, fapVars>>

\* Lines 40-57: one iteration of the loop; line 48 returns from inside it.
CCLoop ==
    /\ pc = "loop"
    /\ stack # <<>>
    /\ LET currentHash == Last(stack)
           rest == Front(stack)
       IN
         IF currentHash \notin visited
         THEN IF currentHash = target
              THEN /\ result' = [val |-> TRUE, err |-> "nil"]
                   /\ pc' = "done"
                   /\ stack' = rest
                   /\ UNCHANGED visited
              ELSE /\ visited' = visited \cup {currentHash}
                   /\ \E order \in Orderings(CCNeighbours(currentHash)) :
                        stack' = rest \o order
                   /\ UNCHANGED <<result, pc>>
         ELSE /\ stack' = rest
              /\ UNCHANGED <<visited, result, pc>>
    /\ UNCHANGED <<g, source, target, lookups, queue, spVars, sccVars, fapVars>>

\* Line 59.
CCReturnFalse ==
    /\ pc = "loop"
    /\ stack = <<>>
    /\ result' = [val |-> FALSE, err |-> "nil"]
    /\ pc' = "done"
    /\ UNCHANGED <<g, source, target, lookups, stack, visited, queue, spVars, sccVars, fapVars>>

NextCC == CCEntry \/ CCLoop \/ CCReturnFalse

SpecCC == InitCC /\ [][NextCC]_vars

\* C5: whenever CreatesCycle returns for existing source and target, it returns
\* no error, and true exactly when source = target or a directed path from
\* target to source exists (target is reached walking predecessor edges
\* backward from source).
C5_CreatesCycleIffBackwardReachable ==
    (pc = "done" /\ VertexFound(source) /\ VertexFound(target)) =>
        /\ result.err = "nil"
        /\ result.val <=> (source = target \/ Reachable(target, source))

\* A call that answered true after walking back over an intermediate vertex.
C5_Witness ==
    /\ pc = "done"
    /\ VertexFound(source) /\ VertexFound(target) /\ source # target
    /\ result = [val |-> TRUE, err |-> "nil"]
    /\ Cardinality(visited) >= 2

\* C8: whenever source or target is absent, CreatesCycle returns VertexNotFound
\* with the verdict false (also for source = target), and an absent source is
\* reported with the target never looked up.
C8_AbsentEndpointFails ==
    (pc = "done" /\ (~VertexFound(source) \/ ~VertexFound(target))) =>
        /\ result = [val |-> FALSE, err |-> "VertexNotFound"]
        /\ ~VertexFound(source) => lookups = <<source>>

\* A call with source = target on a graph that does not hold that vertex.
C8_Witness ==
    /\ pc = "done"
    /\ source = target
    /\ ~VertexFound(source)
    /\ g.vertices # {}
    /\ result.err = "VertexNotFound"

---------------------------------------------------------------------------
\* The priority queue: items with their priorities.

\* math.Inf(1), line 86; InfAdd and InfLess are float64 + and < on it.
Inf == -1

InfAdd(a, b) == IF a = Inf THEN Inf ELSE a + b

InfLess(a, b) == a # Inf /\ (b = Inf \/ a < b)

\* Push(item, priority).
PQPush(q, item, priority) ==
    IF item \in DOMAIN q THEN q ELSE (item :> priority) @@ q

\* The items Pop() may return: those of minimum priority.
PQMinItems(q) == {i \in DOMAIN q : \A j \in DOMAIN q : ~InfLess(q[j], q[i])}

\* The queue after Pop() returned item.
PQRemove(q, item) == [i \in DOMAIN q \ {item} |-> q[i]]

\* UpdatePriority(item, priority): only an item in the queue is updated.
PQUpdatePriority(q, item, priority) ==
    IF item \in DOMAIN q THEN [q EXCEPT ![item] = priority] ELSE q

---------------------------------------------------------------------------
\* ShortestPath (paths.go 71-138).

\* Reading a Go map: the value, or the zero value when the key is absent.
MapGet(m, k, zero) == IF k \in DOMAIN m THEN m[k] ELSE zero

\* Lines 85-88: the weight a vertex starts with.
InitWeightAllInf(hash) == Inf

InitWeight(hash) == IF hash # source THEN Inf ELSE 0

\* Lines 103-110: the weight an edge counts with.
EdgeWeightStored(stored) == stored

EdgeWeight(stored) == IF ~g.traits.IsWeighted THEN 1 ELSE stored

\* Line 114: whether the edge improves the adjacency.
ImprovesOrTies(weight, old, hasInfiniteWeight) ==
    ~InfLess(old, weight) /\ ~hasInfiniteWeight

Improves(weight, old, hasInfiniteWeight) ==
    InfLess(weight, old) /\ ~hasInfiniteWeight

\* Lines 102-119: the range loop over the edges of vertex, in the given order,
\* from the state st = [weights, bestPredecessors, queue].
RECURSIVE Relax(_, _, _, _, _)
Relax(vertex, hasInfiniteWeight, order, i, st) ==
    IF i > Len(order) THEN st
    ELSE LET adjacency == order[i]
             weight == InfAdd(MapGet(st.weights, vertex, 0),
                              EdgeWeight(adjacencyMap[vertex][adjacency]))
         IN IF Improves(weight, MapGet(st.weights, adjacency, 0), hasInfiniteWeight)
            THEN Relax(vertex, hasInfiniteWeight, order, i + 1,
                       [weights |-> (adjacency :> weight) @@ st.weights,
                        bestPredecessors |-> (adjacency :> vertex) @@ st.bestPredecessors,
                        queue |-> PQUpdatePriority(st.queue, adjacency, weight)])
            ELSE Relax(vertex, hasInfiniteWeight, order, i + 1, st)

InitSP ==
    /\ \E gr \in Graphs(Hashes, MaxEdges, 0..MaxWeight), w \in BOOLEAN :
         g = [vertices |-> gr.vertices, edges |-> gr.edges,
              traits |-> [IsDirected |-> TRUE, IsWeighted |-> w]]
    /\ source \in Hashes
    /\ target \in Hashes
    /\ pc = "start"
    /\ result = NoResult
    /\ lookups = <<>>
    /\ stack = <<>>
    /\ visited = <<>>
    /\ weights = <<>>
    /\ queue = <<>>
    /\ bestPredecessors = <<>>
    /\ path = <<>>
    /\ current = 0
    /\ onStack = <<>>
    /\ lowlink = <<>>
    /\ index = <<>>
    /\ time = 0
    /\ components = <<>>
    /\ frames = <<>>
    /\ pending = {}
    /\ paths = <<>>

\* Lines 72-96: every vertex is pushed with its starting weight.
SPEntry ==
    /\ pc = "start"
    /\ weights' = [h \in g.vertices \cup {source} |-> InitWeight(h)]
    /\ visited' = [h \in g.vertices \cup {target} |->
                      IF h \in g.vertices /\ h # source THEN FALSE ELSE TRUE]
    /\ queue' = [h \in g.vertices |-> InitWeight(h)]
    /\ bestPredecessors' = <<>>
    /\ pc' = "loop"
    /\ UNCHANGED <<g, source, target, result, lookups, stack, path, current, sccVars, fapVars>>

\* Lines 98-120: one iteration: pop a minimum vertex and relax its edges.
SPPop ==
    /\ pc = "loop"
    /\ DOMAIN queue # {}
    /\ \E vertex \in PQMinItems(queue) :
         \E order \in Orderings(DOMAIN Row(adjacencyMap, vertex)) :
           LET st == Relax(vertex, weights[vertex] = Inf, order, 1,
                           [weights |-> weights,
                            bestPredecessors |-> bestPredecessors,
                            queue |-> PQRemove(queue, vertex)])
           IN /\ weights' = st.weights
              /\ bestPredecessors' = st.bestPredecessors
              /\ queue' = st.queue
    /\ UNCHANGED <<g, source, target, pc, result, lookups, stack, visited, path, current,
                   sccVars, fapVars>>

\* Lines 98, 122-123: the queue is empty; the walk back starts at target.
SPWalkStart ==
    /\ pc = "loop"
    /\ DOMAIN queue = {}
    /\ path' = <<target>>
    /\ current' = target
    /\ pc' = "walk"
    /\ UNCHANGED <<g, source, target, result, lookups, stack, visited, weights, queue,
                   bestPredecessors, sccVars, fapVars>>

\* Lines 125-135: one iteration of the walk along bestPredecessors.  The guard
\* on the path's length stops a walk that would otherwise never end.
SPWalk ==
    /\ pc = "walk"
    /\ current # source
    /\ Len(path) <= Cardinality(g.vertices) + 1
    /\ IF current \notin DOMAIN bestPredecessors
       THEN /\ result' = [val |-> <<>>, err |-> "TargetNotReachable"]
            /\ pc' = "done"
            /\ UNCHANGED <<path, current>>
       ELSE /\ current' = bestPredecessors[current]
            /\ path' = <<bestPredecessors[current]>> \o path
            /\ UNCHANGED <<result, pc>>
    /\ UNCHANGED <<g, source, target, lookups, stack, visited, weights, queue,
                   bestPredecessors, sccVars, fapVars>>

\* Line 137.
SPReturn ==
    /\ pc = "walk"
    /\ current = source
    /\ result' = [val |-> path, err |-> "nil"]
    /\ pc' = "done"
    /\ UNCHANGED <<g, source, target, lookups, stack, visited, weights, queue,
                   bestPredecessors, path, current, sccVars, fapVars>>

NextSP == SPEntry \/ SPPop \/ SPWalkStart \/ SPWalk \/ SPReturn

SpecSP == InitSP /\ [][NextSP]_vars

\* What the claims measure the code against, stated on the graph alone.

\* The weight an edge counts with: its stored weight on a weighted graph, 1 on
\* an unweighted one.
EffectiveWeight(e) == IF g.traits.IsWeighted THEN g.edges[e] ELSE 1

MinOf(S) ==
    IF S \subseteq {Inf} THEN Inf
    ELSE CHOOSE x \in S \ {Inf} : \A y \in S \ {Inf} : x <= y

\* n rounds of Bellman-Ford from the distances d.
RECURSIVE BellmanFord(_, _)
BellmanFord(d, n) ==
    IF n = 0 THEN d
    ELSE BellmanFord(
           [v \in DOMAIN d |->
              MinOf({d[v]} \cup {InfAdd(d[e[1]], EffectiveWeight(e)) :
                                   e \in {x \in DOMAIN g.edges : x[2] = v}})],
           n - 1)

\* The minimum total effective weight of a path from source to v; Inf if none.
MinDistance(v) ==
    BellmanFord([h \in g.vertices \cup {source, v} |-> IF h = source THEN 0 ELSE Inf],
                Cardinality(g.vertices))[v]

RECURSIVE PathWeight(_, _)
PathWeight(p, i) ==
    IF i >= Len(p) THEN 0
    ELSE EffectiveWeight(<<p[i], p[i + 1]>>) + PathWeight(p, i + 1)

IsPathOfGraph(p) ==
    /\ Len(p) >= 1
    /\ p[1] = source
    /\ p[Len(p)] = target
    /\ \A i \in 1..(Len(p) - 1) : <<p[i], p[i + 1]>> \in DOMAIN g.edges

\* C1: a path ShortestPath returns starts at source, ends at target, follows
\* edges of the adjacency map, and its total effective weight is the minimum
\* over all paths from source to target, whatever order the queue and the map
\* iterations took.
C1_ReturnedPathIsShortest ==
    (pc = "done" /\ result.err = "nil") =>
        /\ IsPathOfGraph(result.val)
        /\ PathWeight(result.val, 1) = MinDistance(target)

\* A two-edge path was returned although a direct edge exists.
C1_Witness ==
    /\ pc = "done"
    /\ result.err = "nil"
    /\ Len(result.val) = 3
    /\ <<source, target>> \in DOMAIN g.edges
    /\ g.traits.IsWeighted

\* C6: ShortestPath fails with TargetNotReachable exactly when target is not
\* reachable from source (source itself is reachable); otherwise it returns a
\* path and no error.
C6_NotReachableIffNoPath ==
    pc = "done" =>
        /\ result.err = "TargetNotReachable" <=> ~Reachable(source, target)
        /\ result.err # "TargetNotReachable" => (result.err = "nil" /\ Len(result.val) >= 1)

\* The call failed although source has edges that were relaxed.
C6_Witness ==
    /\ pc = "done"
    /\ result.err = "TargetNotReachable"
    /\ VertexFound(source) /\ VertexFound(target)
    /\ DOMAIN bestPredecessors # {}

\* Following bestPredecessors from v leaves its domain within n steps.
RECURSIVE LeavesWithin(_, _)
LeavesWithin(v, n) ==
    IF v \notin DOMAIN bestPredecessors THEN TRUE
    ELSE IF n = 0 THEN FALSE
    ELSE LeavesWithin(bestPredecessors[v], n - 1)

BestPredecessorsAcyclic ==
    \A v \in DOMAIN bestPredecessors :
        LeavesWithin(v, Cardinality(DOMAIN bestPredecessors))

\* What is left of a call: 0 exactly when it has returned.
SPMeasure ==
    LET n == Cardinality(g.vertices) IN
    CASE pc = "start" -> 2 * n + 5
      [] pc = "loop" -> n + 4 + Cardinality(DOMAIN queue)
      [] pc = "walk" -> n + 3 - Len(path)
      [] OTHER -> 0

C10_Inv ==
    /\ pc \in {"loop", "walk", "done"} =>
         /\ weights[source] = 0
         /\ BestPredecessorsAcyclic
    /\ (pc \in {"walk", "done"} /\ g.vertices # {}) =>
         Len(path) - 1 <= Cardinality(g.vertices) - 1
    /\ pc = "done" =>
         \/ result.err = "nil" /\ current = source
         \/ result.err = "TargetNotReachable" /\ current \notin DOMAIN bestPredecessors

C10_Step ==
    /\ SPMeasure' < SPMeasure
    /\ SPMeasure' >= 0
    /\ \A v \in DOMAIN bestPredecessors' :
         (v \notin DOMAIN bestPredecessors \/ bestPredecessors'[v] # bestPredecessors[v])
            => InfLess(weights'[v], weights[v])

\* C10: every step of a ShortestPath call brings it closer to its return
\* (the queue shrinks, then the walk back grows the path by one vertex, at
\* most |V|-1 times), weights[source] stays 0, a best predecessor is written
\* only when the vertex's weight strictly decreases, bestPredecessors never
\* holds a cycle, and the walk ends at source or at a vertex without a best
\* predecessor.
C10_ShortestPathTerminates == [](C10_Inv) /\ [][C10_Step]_vars

\* A walk of |V|-1 steps completed on a weighted graph holding a zero-weight cycle.
C10_Witness ==
    /\ pc = "done"
    /\ result.err = "nil"
    /\ g.traits.IsWeighted
    /\ Len(path) = Cardinality(g.vertices)
    /\ Len(path) = 3
    /\ \E e \in DOMAIN g.edges :
         /\ <<e[2], e[1]>> \in DOMAIN g.edges
         /\ e[1] # e[2]
         /\ g.edges[e] = 0
         /\ g.edges[<<e[2], e[1]>>] = 0

---------------------------------------------------------------------------
\* StronglyConnectedComponents and findSCC (paths.go 156-235).

MinInt(a, b) == IF a < b THEN a ELSE b

\* Lines 222-231: `var hash K` starts as the zero value of K; the loop pops
\* until the popped hash is vertexHash.  Popping an empty stack panics.
RECURSIVE PopLoop(_, _, _, _)
PopLoop(vertexHash, hash, stk, component) ==
    IF hash = vertexHash
    THEN [stack |-> stk, component |-> component, panic |-> FALSE]
    ELSE IF stk = <<>>
    THEN [stack |-> stk, component |-> component, panic |-> TRUE]
    ELSE PopLoop(vertexHash, Last(stk), Front(stk), Append(component, Last(stk)))

PopComponent(vertexHash, stk) == PopLoop(vertexHash, ZeroK, stk, <<>>)

InitSCC ==
    /\ \E gr \in Graphs(Hashes, MaxEdges, {0}), d \in BOOLEAN :
         g = [vertices |-> gr.vertices, edges |-> gr.edges,
              traits |-> [IsDirected |-> d, IsWeighted |-> FALSE]]
    /\ source = 0
    /\ target = 0
    /\ pc = "start"
    /\ result = NoResult
    /\ lookups = <<>>
    /\ stack = <<>>
    /\ visited = {}
    /\ weights = <<>>
    /\ queue = <<>>
    /\ bestPredecessors = <<>>
    /\ path = <<>>
    /\ current = 0
    /\ onStack = <<>>
    /\ lowlink = <<>>
    /\ index = <<>>
    /\ time = 0
    /\ components = <<>>
    /\ frames = <<>>
    /\ pending = {}
    /\ paths = <<>>

\* Lines 157-159.
SCCRejectUndirected ==
    /\ pc = "start"
    /\ ~g.traits.IsDirected
    /\ result' = [val |-> <<>>, err |-> "InvalidGraphKind"]
    /\ pc' = "done"
    /\ UNCHANGED <<g, source, target, lookups, stack, visited, queue, spVars, sccVars, fapVars>>

\* Lines 161-174.
SCCEntry ==
    /\ pc = "start"
    /\ g.traits.IsDirected
    /\ pending' = DOMAIN adjacencyMap
    /\ pc' = "range"
    /\ UNCHANGED <<g, source, target, result, lookups, stack, visited, queue, spVars,
                   onStack, lowlink, index, time, components, frames, fapVars>>

\* Lines 186-192: findSCC is entered for vertexHash, called from the frames fs.
Enter(vertexHash, fs) ==
    /\ stack' = Append(stack, vertexHash)
    /\ onStack' = (vertexHash :> TRUE) @@ onStack
    /\ visited' = visited \cup {vertexHash}
    /\ index' = (vertexHash :> time) @@ index
    /\ lowlink' = (vertexHash :> time) @@ lowlink
    /\ time' = time + 1
    /\ frames' = Append(fs, [vertexHash |-> vertexHash,
                             todo |-> DOMAIN Row(adjacencyMap, vertexHash)])

\* Lines 176-180: the range loop yields the next hash.
SCCRange ==
    /\ pc = "range"
    /\ frames = <<>>
    /\ \E hash \in pending :
         /\ pending' = pending \ {hash}
         /\ IF hash \notin visited
            THEN Enter(hash, frames)
            ELSE UNCHANGED <<stack, onStack, visited, index, lowlink, time, frames>>
    /\ UNCHANGED <<g, source, target, pc, result, lookups, queue, spVars, components, fapVars>>

\* Lines 194-216: the range loop of the running findSCC yields the next
\* adjacency: a call for an unvisited one, a lowlink update for one on the stack.
SCCEdge ==
    /\ pc = "range"
    /\ frames # <<>>
    /\ LET top == Last(frames)
           vertexHash == top.vertexHash
       IN \E adjacency \in top.todo :
            LET fs == [frames EXCEPT ![Len(frames)].todo = top.todo \ {adjacency}] IN
            IF adjacency \notin visited
            THEN Enter(adjacency, fs)
            ELSE /\ frames' = fs
                 /\ lowlink' =
                      IF MapGet(onStack, adjacency, FALSE)
                      THEN [lowlink EXCEPT ![vertexHash] =
                              MinInt(lowlink[vertexHash], index[adjacency])]
                      ELSE lowlink
                 /\ UNCHANGED <<stack, onStack, visited, index, time>>
    /\ UNCHANGED <<g, source, target, pc, result, lookups, queue, spVars, components,
                   pending, fapVars>>

\* Lines 221-235, then lines 198-202 in the caller: the running findSCC has
\* ranged over all its edges; it emits a component if it is a root, returns,
\* and the caller takes the smaller lowlink.
SCCReturn ==
    /\ pc = "range"
    /\ frames # <<>>
    /\ Last(frames).todo = {}
    /\ LET vertexHash == Last(frames).vertexHash
           isRoot == lowlink[vertexHash] = index[vertexHash]
           popped == PopComponent(vertexHash, stack)
           callers == Front(frames)
       IN /\ frames' = callers
          /\ IF isRoot
             THEN /\ stack' = popped.stack
                  /\ onStack' = [h \in DOMAIN onStack |->
                                   IF h \in SeqToSet(popped.component) THEN FALSE
                                   ELSE onStack[h]]
                  /\ components' = IF popped.panic THEN components
                                   ELSE Append(components, popped.component)
                  /\ pc' = IF popped.panic THEN "panic" ELSE pc
             ELSE UNCHANGED <<stack, onStack, components, pc>>
          /\ lowlink' =
               IF callers # <<>> /\ ~(isRoot /\ popped.panic)
               THEN [lowlink EXCEPT ![Last(callers).vertexHash] =
                       MinInt(lowlink[Last(callers).vertexHash], lowlink[vertexHash])]
               ELSE lowlink
    /\ UNCHANGED <<g, source, target, result, lookups, visited, queue, spVars, index,
                   time, pending, fapVars>>

\* Line 182.
SCCDone ==
    /\ pc = "range"
    /\ frames = <<>>
    /\ pending = {}
    /\ result' = [val |-> components, err |-> "nil"]
    /\ pc' = "done"
    /\ UNCHANGED <<g, source, target, lookups, stack, visited, queue, spVars, sccVars, fapVars>>

NextSCC == SCCRejectUndirected \/ SCCEntry \/ SCCRange \/ SCCEdge \/ SCCReturn \/ SCCDone

SpecSCC == InitSCC /\ [][NextSCC]_vars

\* The vertices of the components emitted so far, and how often v occurs in them.
Emitted == UNION {SeqToSet(components[i]) : i \in 1..Len(components)}

Occurrences(v) ==
    Cardinality({ij \in (1..Len(components)) \X (1..Cardinality(g.vertices) + 1) :
                   ij[2] <= Len(components[ij[1]]) /\ components[ij[1]][ij[2]] = v})

SameComponent(u, v) ==
    \E i \in 1..Len(components) :
        u \in SeqToSet(components[i]) /\ v \in SeqToSet(components[i])

\* C2: the components StronglyConnectedComponents returns for a directed graph
\* partition its vertices: no component is empty, every vertex occurs exactly
\* once in exactly one component, and a vertex without edges is a component of
\* its own.
C2_ComponentsPartitionVertices ==
    (pc = "done" /\ g.traits.IsDirected) =>
        /\ \A i \in 1..Len(result.val) : result.val[i] # <<>>
        /\ \A v \in g.vertices : Occurrences(v) = 1
        /\ \A v \in g.vertices :
             (\A e \in DOMAIN g.edges : e[1] # v /\ e[2] # v) =>
                 \E i \in 1..Len(result.val) : result.val[i] = <<v>>

\* C3: two vertices are in the same returned component exactly when each is
\* reachable from the other.
C3_ComponentsAreMaximalSCCs ==
    (pc = "done" /\ g.traits.IsDirected) =>
        \A u, v \in g.vertices :
            SameComponent(u, v) <=> (Reachable(u, v) /\ Reachable(v, u))

\* C9: throughout a run the stack holds no vertex of an emitted component, the
\* vertices flagged on-stack are exactly the stack's elements, and the stack is
\* empty when the run returns.
C9_StackHoldsNoEmittedVertex ==
    g.traits.IsDirected =>
        /\ SeqToSet(stack) \cap Emitted = {}
        /\ {h \in DOMAIN onStack : onStack[h]} = SeqToSet(stack)
        /\ pc = "done" => stack = <<>>

---------------------------------------------------------------------------
\* FindAllPaths (paths.go 243-283).  K = string: a hash is a sequence of
\* characters, and so is a path the queue or the result holds.

\* The text vertex hashes: "a", "b", "ab" and "a->b".
StrHashes == { <<"a">>, <<"b">>, <<"a", "b">>, <<"a", "-", ">", "b">> }

\* Line 252.
gap == <<"-", ">">>

\* strings.Contains(s, sub).
Contains(s, sub) ==
    \E i \in 0..(Len(s) - Len(sub)) : SubSeq(s, i + 1, i + Len(sub)) = sub

\* strings.Index(s, sep), counted from 1; 0 when sep does not occur.
IndexOf(s, sep) ==
    IF Contains(s, sep)
    THEN CHOOSE i \in 1..Len(s) :
           /\ SubSeq(s, i, i + Len(sep) - 1) = sep
           /\ \A j \in 1..(i - 1) : SubSeq(s, j, j + Len(sep) - 1) # sep
    ELSE 0

\* strings.Split(s, sep) for a non-empty sep.
RECURSIVE Split(_, _)
Split(s, sep) ==
    LET i == IndexOf(s, sep) IN
    IF i = 0 THEN <<s>>
    ELSE <<SubSeq(s, 1, i - 1)>> \o Split(SubSeq(s, i + Len(sep), Len(s)), sep)

\* Line 270: whether the path already holds the adjacency.
PathHolds(p, adjacency) == Contains(p, adjacency)

\* Lines 269-278: the range loop over the edges of lastVertex, in the given
\* order, from the state st = [queue, paths].
RECURSIVE Expand(_, _, _, _)
Expand(p, order, i, st) ==
    IF i > Len(order) THEN st
    ELSE LET adjacency == order[i]
             resultPath == p \o gap \o adjacency
         IN IF ~PathHolds(p, adjacency)
            THEN IF adjacency # target
                 THEN Expand(p, order, i + 1,
                             [queue |-> PQPush(st.queue, resultPath, 0), paths |-> st.paths])
                 ELSE Expand(p, order, i + 1,
                             [queue |-> st.queue, paths |-> Append(st.paths, resultPath)])
            ELSE Expand(p, order, i + 1, st)

InitFAP ==
    /\ \E gr \in Graphs(StrHashes, MaxEdges, {0}) :
         g = [vertices |-> gr.vertices, edges |-> gr.edges,
              traits |-> [IsDirected |-> TRUE, IsWeighted |-> FALSE]]
    /\ source \in StrHashes
    /\ target \in StrHashes
    /\ pc = "start"
    /\ result = NoResult
    /\ lookups = <<>>
    /\ stack = <<>>
    /\ visited = {}
    /\ weights = <<>>
    /\ queue = <<>>
    /\ bestPredecessors = <<>>
    /\ path = <<>>
    /\ current = 0
    /\ onStack = <<>>
    /\ lowlink = <<>>
    /\ index = <<>>
    /\ time = 0
    /\ components = <<>>
    /\ frames = <<>>
    /\ pending = {}
    /\ paths = <<>>

\* Lines 245-253.
FAPEntry ==
    /\ pc = "start"
    /\ queue' = PQPush(<<>>, source, 0)
    /\ paths' = <<>>
    /\ pc' = "loop"
    /\ UNCHANGED <<g, source, target, result, lookups, stack, visited, spVars, sccVars>>

\* Lines 258-280: one iteration: pop a partial path and expand its last vertex.
FAPPop ==
    /\ pc = "loop"
    /\ DOMAIN queue # {}
    /\ \E p \in PQMinItems(queue) :
         LET vertexArray == Split(p, gap)
             lastVertex == vertexArray[Len(vertexArray)]
         IN \E order \in Orderings(DOMAIN Row(adjacencyMap, lastVertex)) :
              LET st == Expand(p, order, 1, [queue |-> PQRemove(queue, p), paths |-> paths])
              IN /\ queue' = st.queue
                 /\ paths' = st.paths
    /\ UNCHANGED <<g, source, target, pc, result, lookups, stack, visited, spVars, sccVars>>

\* Lines 258, 282: the queue is empty.
FAPReturn ==
    /\ pc = "loop"
    /\ DOMAIN queue = {}
    /\ result' = [val |-> paths, err |-> "nil"]
    /\ pc' = "done"
    /\ UNCHANGED <<g, source, target, lookups, stack, visited, queue, spVars, sccVars, fapVars>>

NextFAP == FAPEntry \/ FAPPop \/ FAPReturn

SpecFAP == InitFAP /\ [][NextFAP]_vars

\* A returned path read as its sequence of vertex hashes.
ReadPath(p) == Split(p, gap)

\* The sequences of pairwise distinct vertices from source to target along edges.
SimplePaths ==
    {q \in UNION {[1..k -> g.vertices] : k \in 1..Cardinality(g.vertices)} :
        /\ q[1] = source
        /\ q[Len(q)] = target
        /\ \A i, j \in 1..Len(q) : q[i] = q[j] => i = j
        /\ \A i \in 1..(Len(q) - 1) : <<q[i], q[i + 1]>> \in DOMAIN g.edges}

\* C4: FindAllPaths returns every simple path from source to target exactly
\* once and nothing else (stated for source # target).
C4_AllSimplePathsExactlyOnce ==
    (pc = "done" /\ source # target) =>
        /\ {ReadPath(result.val[i]) : i \in 1..Len(result.val)} = SimplePaths
        /\ \A i, j \in 1..Len(result.val) : result.val[i] = result.val[j] => i = j

\* C7: every path FindAllPaths returns, read as its sequence of vertex hashes,
\* repeats no vertex, starts at source, ends at target and follows edges.
C7_ReturnedPathsAreSimplePaths ==
    pc = "done" =>
        \A k \in 1..Len(result.val) :
            LET q == ReadPath(result.val[k]) IN
            /\ \A i, j \in 1..Len(q) : q[i] = q[j] => i = j
            /\ q[Len(q)] = target
            /\ q[1] = source
            /\ \A i \in 1..(Len(q) - 1) : <<q[i], q[i + 1]>> \in DOMAIN g.edges

===========================================================================
